---------------------------- MODULE Spec2Model ----------------------------
(***************************************************************************)
(* Model of rs_memmap: the /proc/<pid>/smaps header parser                 *)
(* (src/process/memory/region.rs), the snapshot builder                    *)
(* (src/process/process.rs) and the totals/gauge computation of the        *)
(* widget (src/app/app.rs).                                                *)
(*                                                                         *)
(* A Rust &str is modelled as a sequence of one-character strings; every   *)
(* character of the model's alphabet is ASCII, so byte length and          *)
(* character count agree.                                                  *)
(***************************************************************************)
EXTENDS Integers, Sequences, FiniteSets, TLC

VARIABLES
    mode,            \* which entry point this behaviour exercises
    pc,              \* position inside the entry point
    smaps_content,   \* Process::try_from: smaps_content.lines(), a sequence of lines
    pos,             \* Process::try_from: number of lines the iterator has yielded
    region,          \* Process::try_from: the in-progress DetailedMemoryRegion, <<>> if none
    memory_regions,  \* Process::try_from: the Vec being built
    result,          \* Process::try_from: the returned Result, NoResult before return
    arg,             \* argument of the function under test (a string or a totals list)
    ret              \* what the function under test returned

vars == <<mode, pc, smaps_content, pos, region, memory_regions, result, arg, ret>>

-----------------------------------------------------------------------------
(* Bounds *)

MaxLines == 3      \* lines in a descriptor text
MaxRun == 2        \* longest run of whitespace between two header fields
MaxDeleted == 2    \* copies of " (deleted)" at the end of a path
MaxPermLen == 5    \* longest permission string
MaxGroups == 6     \* groups returned by get_rss_totals
MaxRss == 2        \* largest per-group total

-----------------------------------------------------------------------------
(* Strings *)

HexLower == <<"0","1","2","3","4","5","6","7","8","9","a","b","c","d","e","f">>
HexUpper == <<"0","1","2","3","4","5","6","7","8","9","A","B","C","D","E","F">>

\* char::is_whitespace, on the characters of the model's alphabet
is_whitespace(c) == c \in {" ", "\t"}

\* char::is_ascii_hexdigit
is_ascii_hexdigit(c) == \E i \in 1..16 : c = HexLower[i] \/ c = HexUpper[i]

\* char::to_digit(16) for a hex digit
HexVal(c) == (CHOOSE i \in 1..16 : c = HexLower[i] \/ c = HexUpper[i]) - 1

Drop(s, n) == SubSeq(s, n + 1, Len(s))
Take(s, n) == SubSeq(s, 1, n)

ends_with(s, suffix) ==
    /\ Len(s) >= Len(suffix)
    /\ Drop(s, Len(s) - Len(suffix)) = suffix

\* str::trim_end_matches: removes the suffix repeatedly, as long as it matches
RECURSIVE trim_end_matches(_, _)
trim_end_matches(s, pat) ==
    IF pat # <<>> /\ ends_with(s, pat)
    THEN trim_end_matches(Take(s, Len(s) - Len(pat)), pat)
    ELSE s

RECURSIVE trim_start(_)
trim_start(s) ==
    IF s # <<>> /\ is_whitespace(Head(s)) THEN trim_start(Tail(s)) ELSE s

RECURSIVE trim_end(_)
trim_end(s) ==
    IF s # <<>> /\ is_whitespace(s[Len(s)]) THEN trim_end(Take(s, Len(s) - 1)) ELSE s

\* str::trim
trim(s) == trim_end(trim_start(s))

\* str::find(char::is_whitespace): index of the first whitespace, 0 if none
RECURSIVE FindWs(_, _)
FindWs(s, i) ==
    IF i > Len(s) THEN 0
    ELSE IF is_whitespace(s[i]) THEN i
    ELSE FindWs(s, i + 1)

FirstWs(s) == FindWs(s, 1)

\* str::find(c): index of the first c, 0 if none
RECURSIVE FindChar(_, _, _)
FindChar(s, c, i) ==
    IF i > Len(s) THEN 0
    ELSE IF s[i] = c THEN i
    ELSE FindChar(s, c, i + 1)

FirstChar(s, c) == FindChar(s, c, 1)

\* str::splitn(n, char::is_whitespace): at most n pieces, the last one is the
\* unsplit remainder; consecutive separators give empty pieces, which count
RECURSIVE splitn(_, _)
splitn(n, s) ==
    LET i == FirstWs(s) IN
    IF n = 0 THEN <<>>
    ELSE IF n = 1 \/ i = 0 THEN <<s>>
    ELSE <<Take(s, i - 1)>> \o splitn(n - 1, Drop(s, i))

\* Iterator::filter(|s| !s.is_empty())
NonEmpty(piece) == piece # <<>>
filter_non_empty(pieces) == SelectSeq(pieces, NonEmpty)

\* str::split_once(c): <<before, after>> around the first c, <<>> if c is absent
split_once(s, c) ==
    LET i == FirstChar(s, c) IN
    IF i = 0 THEN <<>> ELSE <<Take(s, i - 1), Drop(s, i)>>

-----------------------------------------------------------------------------
(* Results and errors *)

Ok(v) == [ok |-> TRUE, val |-> v]
Err(e) == [ok |-> FALSE, err |-> e]

MissingField(name) == [kind |-> "MissingField", field |-> name, text |-> <<>>]
InvalidAddress(s) == [kind |-> "InvalidAddress", field |-> "", text |-> s]
InvalidPermissions(s) == [kind |-> "InvalidPermissions", field |-> "", text |-> s]
InvalidDevice(s) == [kind |-> "InvalidDevice", field |-> "", text |-> s]
InvalidInt == [kind |-> "InvalidInt", field |-> "", text |-> <<>>]

-----------------------------------------------------------------------------
(* Integer parsing: u64::from_str_radix, u8::from_str_radix, str::parse::<u64> *)

U8_MAX == 255

DigitOk(c, radix) == is_ascii_hexdigit(c) /\ HexVal(c) < radix

RECURSIVE DigitsVal(_, _)
DigitsVal(ds, radix) ==
    IF ds = <<>> THEN 0
    ELSE DigitsVal(Take(ds, Len(ds) - 1), radix) * radix + HexVal(ds[Len(ds)])

RECURSIVE StripZeros(_)
StripZeros(ds) == IF ds # <<>> /\ Head(ds) = "0" THEN StripZeros(Tail(ds)) ELSE ds

U64MaxDecimal ==
    <<"1","8","4","4","6","7","4","4","0","7","3","7","0","9","5","5","1","6","1","5">>

RECURSIVE DigitsGreater(_, _)
DigitsGreater(a, b) ==
    /\ a # <<>>
    /\ \/ HexVal(Head(a)) > HexVal(Head(b))
       \/ Head(a) = Head(b) /\ DigitsGreater(Tail(a), Tail(b))

\* the digits denote a value above u64::MAX (decided on the digits: the value
\* itself is only computed when it fits)
OverflowsU64(ds, radix) ==
    LET sig == StripZeros(ds) IN
    IF radix = 16 THEN Len(sig) > 16
    ELSE Len(sig) > 20 \/ (Len(sig) = 20 /\ DigitsGreater(sig, U64MaxDecimal))

\* the sign handling and digit loop shared by the unsigned from_str_radix:
\* the digit string, or <<>> when the input is not a number
UnsignedDigits(s, radix) ==
    LET ds == IF s # <<>> /\ Head(s) = "+" /\ Len(s) > 1 THEN Tail(s) ELSE s IN
    IF ds # <<>> /\ \A i \in 1..Len(ds) : DigitOk(ds[i], radix) THEN ds ELSE <<>>

u64_from_str_radix(s, radix) ==
    LET ds == UnsignedDigits(s, radix) IN
    IF ds = <<>> \/ OverflowsU64(ds, radix) THEN Err(InvalidInt)
    ELSE Ok(DigitsVal(ds, radix))

u8_from_str_radix(s, radix) ==
    LET ds == UnsignedDigits(s, radix) IN
    IF ds = <<>> \/ Len(StripZeros(ds)) > 2 THEN Err(InvalidInt)
    ELSE IF DigitsVal(ds, radix) > U8_MAX THEN Err(InvalidInt)
    ELSE Ok(DigitsVal(ds, radix))

-----------------------------------------------------------------------------
(* Field parsers *)

parse_address_range(s) ==
    LET halves == split_once(s, "-") IN
    IF halves = <<>> THEN Err(InvalidAddress(s))
    ELSE LET start == u64_from_str_radix(halves[1], 16) IN
         IF ~start.ok THEN start
         ELSE LET end == u64_from_str_radix(halves[2], 16) IN
              IF ~end.ok THEN end
              ELSE Ok(<<start.val, end.val>>)

\* parse_device with the missing-separator error of parse_address_range
parse_device_WrongError(s) ==
    LET halves == split_once(s, ":") IN
    IF halves = <<>> THEN Err(InvalidAddress(s))
    ELSE LET major == u8_from_str_radix(halves[1], 16) IN
         IF ~major.ok THEN major
         ELSE LET minor == u8_from_str_radix(halves[2], 16) IN
              IF ~minor.ok THEN minor
              ELSE Ok(<<major.val, minor.val>>)

parse_device(s) ==
    LET halves == split_once(s, ":") IN
    IF halves = <<>> THEN Err(InvalidDevice(s))
    ELSE LET major == u8_from_str_radix(halves[1], 16) IN
         IF ~major.ok THEN major
         ELSE LET minor == u8_from_str_radix(halves[2], 16) IN
              IF ~minor.ok THEN minor
              ELSE Ok(<<major.val, minor.val>>)

\* Permissions::from_str reading the fourth flag from the private letter
Permissions_from_str_PrivateIsShared(s) ==
    IF Len(s) # 4 THEN Err(InvalidPermissions(s))
    ELSE Ok([read |-> s[1] = "r",
             write |-> s[2] = "w",
             execute |-> s[3] = "x",
             shared |-> s[4] = "p"])

\* impl FromStr for Permissions
Permissions_from_str(s) ==
    IF Len(s) # 4 THEN Err(InvalidPermissions(s))
    ELSE Ok([read |-> s[1] = "r",
             write |-> s[2] = "w",
             execute |-> s[3] = "x",
             shared |-> s[4] = "s"])

\* impl fmt::Display for Permissions
Permissions_fmt(p) ==
    << IF p.read THEN "r" ELSE "-",
       IF p.write THEN "w" ELSE "-",
       IF p.execute THEN "x" ELSE "-",
       IF p.shared THEN "s" ELSE "p" >>

-----------------------------------------------------------------------------
(* PathType *)

DeletedSuffix == <<" ", "(", "d", "e", "l", "e", "t", "e", "d", ")">>
HeapName == <<"[", "h", "e", "a", "p", "]">>
StackName == <<"[", "s", "t", "a", "c", "k", "]">>
VdsoName == <<"[", "v", "d", "s", "o", "]">>
VvarName == <<"[", "v", "v", "a", "r", "]">>
VsyscallName == <<"[", "v", "s", "y", "s", "c", "a", "l", "l", "]">>

Anonymous == [tag |-> "Anonymous", path |-> <<>>]
Heap == [tag |-> "Heap", path |-> <<>>]
Stack == [tag |-> "Stack", path |-> <<>>]
Vdso == [tag |-> "Vdso", path |-> <<>>]
Vvar == [tag |-> "Vvar", path |-> <<>>]
Vsyscall == [tag |-> "Vsyscall", path |-> <<>>]
File(p) == [tag |-> "File", path |-> p]
Deleted(p) == [tag |-> "Deleted", path |-> p]

\* impl FromStr for PathType: the match arms in order
PathType_from_str(s) ==
    Ok(IF s = <<>> THEN Anonymous
       ELSE IF s = HeapName THEN Heap
       ELSE IF s = StackName THEN Stack
       ELSE IF s = VdsoName THEN Vdso
       ELSE IF s = VvarName THEN Vvar
       ELSE IF s = VsyscallName THEN Vsyscall
       ELSE IF ends_with(s, DeletedSuffix)
            THEN Deleted(trim_end_matches(s, DeletedSuffix))
       ELSE File(s))

-----------------------------------------------------------------------------
(* MemoryRegion *)

\* Iterator::next on `parts`: the n-th item, <<>> (None) past the end
Nth(parts, n) == IF n <= Len(parts) THEN <<parts[n]>> ELSE <<>>

\* the `parts` iterator of MemoryRegion::from_str
Parts(line) == filter_non_empty(splitn(6, line))

\* parts.next().map(|s| s.trim().parse()).transpose()?
ParsePathName(opt) ==
    IF opt = <<>> THEN Ok(<<>>)
    ELSE LET r == PathType_from_str(trim(opt[1])) IN
         IF r.ok THEN Ok(<<r.val>>) ELSE r

\* impl FromStr for MemoryRegion
MemoryRegion_from_str(line) ==
    LET parts == Parts(line) IN
    IF Nth(parts, 1) = <<>> THEN Err(MissingField("address range"))
    ELSE LET range == parse_address_range(parts[1]) IN
    IF ~range.ok THEN range
    ELSE IF Nth(parts, 2) = <<>> THEN Err(MissingField("permissions"))
    ELSE LET permissions == Permissions_from_str(parts[2]) IN
    IF ~permissions.ok THEN permissions
    ELSE IF Nth(parts, 3) = <<>> THEN Err(MissingField("offset"))
    ELSE LET offset == u64_from_str_radix(parts[3], 16) IN
    IF ~offset.ok THEN offset
    ELSE IF Nth(parts, 4) = <<>> THEN Err(MissingField("device"))
    ELSE LET device == parse_device(parts[4]) IN
    IF ~device.ok THEN device
    ELSE IF Nth(parts, 5) = <<>> THEN Err(MissingField("inode"))
    ELSE LET inode == u64_from_str_radix(parts[5], 10) IN
    IF ~inode.ok THEN inode
    ELSE LET path_name == ParsePathName(Nth(parts, 6)) IN
    IF ~path_name.ok THEN path_name
    ELSE Ok([start |-> range.val[1],
             end |-> range.val[2],
             permissions |-> permissions.val,
             offset |-> offset.val,
             device |-> device.val,
             inode |-> inode.val,
             path_name |-> path_name.val])

\* MemoryRegion::size: `self.end - self.start` on u64. With end < start the
\* subtraction overflows: a build with overflow checks panics, a build without
\* them wraps modulo 2^64. The wrapped value 2^64 - (start - end) is kept
\* symbolically as its distance below 2^64.
SizeOutcomes(r) ==
    IF r.end >= r.start
    THEN {[kind |-> "value", val |-> r.end - r.start]}
    ELSE {[kind |-> "panic", val |-> 0],
          [kind |-> "wrapped", val |-> r.start - r.end]}

-----------------------------------------------------------------------------
(* DetailedMemoryRegion and the detail accumulator *)

\* DetailedMemoryRegion::from_region: the base region and an empty counter map
from_region(base) == [region |-> base, counters |-> <<>>]

\* counters.insert(key, value): the last write for a key wins
Insert(counters, key, value) ==
    [k \in (DOMAIN counters) \cup {key} |-> IF k = key THEN value ELSE counters[k]]

\* str::split_whitespace
split_whitespace(s) == filter_non_empty(splitn(Len(s) + 1, s))

\* parse_detail_into_region: `Key: value [unit]` stores (Key, value); a line of
\* any other shape leaves the region as it was
parse_detail_into_region(r, detail) ==
    LET halves == split_once(detail, ":") IN
    IF halves = <<>> THEN r
    ELSE LET words == split_whitespace(halves[2]) IN
         IF words = <<>> THEN r
         ELSE LET value == u64_from_str_radix(words[1], 10) IN
              IF ~value.ok THEN r
              ELSE [r EXCEPT !.counters = Insert(@, trim(halves[1]), value.val)]

-----------------------------------------------------------------------------
(* Process::try_from, from the point where /proc/<pid>/cmdline and           *)
(* /proc/<pid>/smaps have been read: smaps_content is the text as the        *)
(* sequence of lines that str::lines yields.                                 *)

NoResult == [ok |-> FALSE, err |-> [kind |-> "NotReturned", field |-> "", text |-> <<>>]]
NoRet == [kind |-> "none", val |-> 0]
NoArg == <<>>

\* is_address_line
is_address_line(line) == line # <<>> /\ is_ascii_hexdigit(Head(line))

\* descriptor lines the snapshot builder is run on
H_File == <<"1", "-", "2", " ", "r", "-", "x", "p", " ", "0", " ", "0", "8", ":", "0", "1", " ", "1", "2", " ", "/", "x">>
H_Anon == <<"3", "-", "5", " ", "r", "w", "-", "p", " ", "0", " ", "0", "0", ":", "0", "0", " ", "0">>
H_Backwards == <<"2", "-", "1", " ", "r", "-", "-", "p", " ", "0", " ", "0", "0", ":", "0", "0", " ", "0">>
H_NoDevice == <<"1", "-", "2", " ", "r", "-", "x", "p", " ", "0", " ", "1", "2">>
H_NoDevicePath == <<"1", "-", "2", " ", "r", "-", "x", "p", " ", "0", " ", "1", "2", " ", "/", "x">>
H_NoDeviceRuns == <<"1", "-", "2", " ", " ", " ", "r", "-", "x", "p", " ", "0", " ", "1", "2", " ", "b", ":", "c">>
H_AfterOffset == <<"1", "-", "2", " ", "r", "-", "x", "p", " ", "0">>
H_BadPerms == <<"1", "-", "2", " ", "r", "w", "x", " ", "0", " ", "0", "8", ":", "0", "1", " ", "1", "2">>
D_Rss == <<"R", "s", "s", ":", " ", "2", " ", "k", "B">>
D_Rss1 == <<"R", "s", "s", ":", " ", " ", " ", "1", " ", "k", "B">>
D_Pss == <<"P", "s", "s", ":", " ", "1", " ", "k", "B">>
D_Anonymous == <<"A", "n", "o", "n", "y", "m", "o", "u", "s", ":", " ", "0", " ", "k", "B">>
D_VmFlags == <<"V", "m", "F", "l", "a", "g", "s", ":", " ", "r", "d", " ", "e", "x">>

WellFormedHeaders == {H_File, H_Anon, H_Backwards}
NoDeviceHeaders == {H_NoDevice, H_NoDevicePath, H_NoDeviceRuns}
BrokenHeaders == NoDeviceHeaders \cup {H_AfterOffset, H_BadPerms}
DetailLines == {D_Rss, D_Rss1, D_Pss, D_Anonymous, D_VmFlags}
Lines == WellFormedHeaders \cup BrokenHeaders \cup DetailLines

Texts == UNION {[1..n -> Lines] : n \in 0..MaxLines}

InitTryFrom ==
    /\ mode = "try_from"
    /\ pc = "outer"
    /\ smaps_content \in Texts
    /\ pos = 0
    /\ region = <<>>
    /\ memory_regions = <<>>
    /\ result = NoResult
    /\ arg = NoArg
    /\ ret = NoRet

\* `while let Some(line) = lines.next()` on a header line that parses:
\* a new region is in progress
OuterHeaderOk ==
    /\ pc = "outer"
    /\ pos < Len(smaps_content)
    /\ is_address_line(smaps_content[pos + 1])
    /\ LET base_region == MemoryRegion_from_str(smaps_content[pos + 1]) IN
          /\ base_region.ok
          /\ region' = <<from_region(base_region.val)>>
    /\ pos' = pos + 1
    /\ pc' = "inner"
    /\ UNCHANGED <<mode, smaps_content, memory_regions, result, arg, ret>>

\* OuterHeaderErr that skips the corrupt header and keeps going
OuterHeaderErr_SkipRegion ==
    /\ pc = "outer"
    /\ pos < Len(smaps_content)
    /\ is_address_line(smaps_content[pos + 1])
    /\ ~MemoryRegion_from_str(smaps_content[pos + 1]).ok
    /\ pos' = pos + 1
    /\ UNCHANGED <<mode, pc, smaps_content, region, memory_regions, result, arg, ret>>

\* `MemoryRegion::from_str(line)?` on a header line that does not parse: the
\* function returns the error (wrapped by From into
\* ProcessParseError::MemoryParseError, kept here as the MemoryParseError itself)
\* and its locals are dropped
OuterHeaderErr ==
    /\ pc = "outer"
    /\ pos < Len(smaps_content)
    /\ is_address_line(smaps_content[pos + 1])
    /\ LET base_region == MemoryRegion_from_str(smaps_content[pos + 1]) IN
          /\ ~base_region.ok
          /\ result' = Err(base_region.err)
    /\ memory_regions' = <<>>
    /\ region' = <<>>
    /\ pos' = pos + 1
    /\ pc' = "done"
    /\ UNCHANGED <<mode, smaps_content, arg, ret>>

\* OuterSkip that hands the line to the header parser, which rejects it
OuterSkip_ParseAnyway ==
    /\ pc = "outer"
    /\ pos < Len(smaps_content)
    /\ ~is_address_line(smaps_content[pos + 1])
    /\ LET base_region == MemoryRegion_from_str(smaps_content[pos + 1]) IN
          IF base_region.ok
          THEN /\ region' = <<from_region(base_region.val)>>
               /\ pc' = "inner"
               /\ UNCHANGED <<result, memory_regions>>
          ELSE /\ result' = Err(base_region.err)
               /\ memory_regions' = <<>>
               /\ region' = <<>>
               /\ pc' = "done"
    /\ pos' = pos + 1
    /\ UNCHANGED <<mode, smaps_content, arg, ret>>

\* the outer loop on a line that is no header: nothing happens
OuterSkip ==
    /\ pc = "outer"
    /\ pos < Len(smaps_content)
    /\ ~is_address_line(smaps_content[pos + 1])
    /\ pos' = pos + 1
    /\ UNCHANGED <<mode, pc, smaps_content, region, memory_regions, result, arg, ret>>

\* the inner loop's test: lines.peek() is Some(next) and next is no header
PeekIsDetail ==
    /\ pos < Len(smaps_content)
    /\ ~is_address_line(smaps_content[pos + 1])

\* `while let Some(next) = lines.peek()` on a line that is no header
InnerDetail ==
    /\ pc = "inner"
    /\ PeekIsDetail
    /\ region' = <<parse_detail_into_region(region[1], smaps_content[pos + 1])>>
    /\ pos' = pos + 1
    /\ UNCHANGED <<mode, pc, smaps_content, memory_regions, result, arg, ret>>

\* InnerPush that inserts the region at the front of the Vec
InnerPush_Front ==
    /\ pc = "inner"
    /\ ~PeekIsDetail
    /\ memory_regions' = <<region[1]>> \o memory_regions
    /\ region' = <<>>
    /\ pc' = "outer"
    /\ UNCHANGED <<mode, smaps_content, pos, result, arg, ret>>

\* the inner loop ends (a header is next, or the input is exhausted):
\* memory_regions.push(region)
InnerPush ==
    /\ pc = "inner"
    /\ ~PeekIsDetail
    /\ memory_regions' = Append(memory_regions, region[1])
    /\ region' = <<>>
    /\ pc' = "outer"
    /\ UNCHANGED <<mode, smaps_content, pos, result, arg, ret>>

\* Ok(Process { pid, cmd_line, memory_regions })
Return ==
    /\ pc = "outer"
    /\ pos = Len(smaps_content)
    /\ result' = Ok([memory_regions |-> memory_regions])
    /\ memory_regions' = <<>>
    /\ pc' = "done"
    /\ UNCHANGED <<mode, smaps_content, pos, region, arg, ret>>

\* MemoryRegion::size on a region of the snapshot
CallSize ==
    /\ pc = "done"
    /\ result.ok
    /\ \E i \in 1..Len(result.val.memory_regions) :
          /\ arg' = i
          /\ ret' \in SizeOutcomes(result.val.memory_regions[i].region)
    /\ pc' = "sized"
    /\ UNCHANGED <<mode, smaps_content, pos, region, memory_regions, result>>

Next ==
    \/ OuterHeaderOk
    \/ OuterHeaderErr
    \/ OuterSkip
    \/ InnerDetail
    \/ InnerPush
    \/ Return
    \/ CallSize

Spec == InitTryFrom /\ [][Next]_vars

-----------------------------------------------------------------------------
(* Properties of Process::try_from *)

Returned == pc \in {"done", "sized"}

\* the indices of the header lines of a text, ascending
RECURSIVE HeaderIndices(_, _)
HeaderIndices(text, i) ==
    IF i > Len(text) THEN <<>>
    ELSE IF is_address_line(text[i]) THEN <<i>> \o HeaderIndices(text, i + 1)
    ELSE HeaderIndices(text, i + 1)

\* the detail lines text[i..j] applied in order to r
RECURSIVE ApplyDetails(_, _, _, _)
ApplyDetails(r, text, i, j) ==
    IF i > j THEN r
    ELSE ApplyDetails(parse_detail_into_region(r, text[i]), text, i + 1, j)

\* the region a header line at index hs[k] stands for: its own base region
\* with exactly the detail lines up to the next header line
ExpectedRegion(text, hs, k) ==
    ApplyDetails(from_region(MemoryRegion_from_str(text[hs[k]]).val), text,
                 hs[k] + 1,
                 IF k < Len(hs) THEN hs[k + 1] - 1 ELSE Len(text))

FailingHeaders ==
    {i \in 1..Len(smaps_content) :
        is_address_line(smaps_content[i]) /\ ~MemoryRegion_from_str(smaps_content[i]).ok}

FirstFailing == CHOOSE i \in FailingHeaders : \A j \in FailingHeaders : i <= j

\* C1: when try_from succeeds, the region list has one region per header line,
\* in the order of the header lines, each with the base region of its header
\* line and the counters of exactly the detail lines between that header line
\* and the next one; the base regions depend on the header lines alone.
C1_RegionPerHeaderInOrder ==
    (Returned /\ result.ok) =>
        LET hs == HeaderIndices(smaps_content, 1)
            rs == result.val.memory_regions
        IN /\ Len(rs) = Len(hs)
           /\ \A k \in 1..Len(hs) :
                 /\ rs[k].region = MemoryRegion_from_str(smaps_content[hs[k]]).val
                 /\ rs[k] = ExpectedRegion(smaps_content, hs, k)

C1_Witness ==
    /\ Returned /\ result.ok
    /\ smaps_content = <<H_File, D_Rss, H_Anon>>
    /\ Len(result.val.memory_regions) = 2
    /\ result.val.memory_regions[1].counters # <<>>
    /\ result.val.memory_regions[2].counters = <<>>

\* C2: a text made of well-formed header lines and of detail lines `Key: value kB`
\* (any key, Anonymous included) or malformed detail lines always builds a
\* snapshot, with as many regions as header lines.
C2_DetailLinesNeverFail ==
    (Returned /\ \A i \in 1..Len(smaps_content) :
                    smaps_content[i] \in WellFormedHeaders \cup DetailLines) =>
        /\ result.ok
        /\ Len(result.val.memory_regions) =
              Cardinality({i \in 1..Len(smaps_content) :
                              smaps_content[i] \in WellFormedHeaders})

\* C3: when any header line fails to parse, try_from returns that error and no
\* region list, whatever was parsed before it.
C3_HeaderFailureAborts ==
    (Returned /\ FailingHeaders # {}) =>
        /\ ~result.ok
        /\ result.err = MemoryRegion_from_str(smaps_content[FirstFailing]).err
        /\ memory_regions = <<>>

C3_Witness ==
    /\ Returned
    /\ Len(smaps_content) = 3
    /\ smaps_content[1] \in WellFormedHeaders
    /\ smaps_content[2] \in DetailLines
    /\ smaps_content[3] \in BrokenHeaders
    /\ ~result.ok

C9_SizeNeverUnderflows ==
    /\ (Returned /\ result.ok) =>
          \A k \in 1..Len(result.val.memory_regions) :
             result.val.memory_regions[k].region.end >
                result.val.memory_regions[k].region.start
    /\ pc = "sized" => ret.kind = "value"

\* the number of lines before the first header line
RECURSIVE LeadingDetails(_, _)
LeadingDetails(text, i) ==
    IF i > Len(text) \/ is_address_line(text[i]) THEN i - 1
    ELSE LeadingDetails(text, i + 1)

\* C11: lines that are no header lines and come before the first header line
\* are skipped: while they are read no region is started, nothing is pushed
\* and nothing is returned, and try_from ends as it does on the text without
\* them (same regions and counters, or the same header error).
C11_OrphanDetailSkipped ==
    LET k == LeadingDetails(smaps_content, 1)
        rest == Drop(smaps_content, k)
        hs == HeaderIndices(rest, 1)
        bad == {j \in 1..Len(hs) : ~MemoryRegion_from_str(rest[hs[j]]).ok}
    IN k > 0 =>
        /\ pos <= k =>
              /\ region = <<>>
              /\ memory_regions = <<>>
              /\ IF pos = Len(smaps_content) /\ Returned
                 THEN result = Ok([memory_regions |-> <<>>])
                 ELSE pc = "outer" /\ result = NoResult
        /\ (Returned /\ bad = {}) =>
              /\ result.ok
              /\ Len(result.val.memory_regions) = Len(hs)
              /\ \A j \in 1..Len(hs) :
                    result.val.memory_regions[j] = ExpectedRegion(rest, hs, j)
        /\ (Returned /\ bad # {}) =>
              /\ ~result.ok
              /\ \E j \in bad :
                    /\ \A i \in bad : j <= i
                    /\ result.err = MemoryRegion_from_str(rest[hs[j]]).err

C11_Witness ==
    /\ Returned
    /\ smaps_content = <<D_Rss, H_File, D_Pss>>
    /\ result.ok
    /\ Len(result.val.memory_regions) = 1
    /\ DOMAIN result.val.memory_regions[1].counters = {<<"P", "s", "s">>}

-----------------------------------------------------------------------------
(* MemoryRegion::from_str on single header lines *)

\* a run of k spaces
RECURSIVE Spaces(_)
Spaces(k) == IF k = 0 THEN <<>> ELSE <<" ">> \o Spaces(k - 1)

Runs == {Spaces(k) : k \in 1..MaxRun} \cup {<<"\t">>}

ValidAddrs == {<<"1", "-", "2">>, <<"7", "f", "-", "A", "0">>}
ValidPerms == {<<"r", "-", "x", "p">>}
ValidOffsets == {<<"1", "0", "0", "0">>}
ValidDevs == {<<"0", "8", ":", "0", "1">>, <<"0", ":", "f", "f">>}
ValidInodes == {<<"1", "2">>}
PathTexts == {<<"/", "x">>, <<"/", "a", " ", "b">>, <<"[", "h", "e", "a", "p", "]">>, <<"/", "x", " ", "(", "d", "e", "l", "e", "t", "e", "d", ")">>}

\* what follows the inode: nothing, whitespace only, or whitespace and a path
\* (itself possibly followed by one space)
Remainders ==
    {Spaces(k) : k \in 0..MaxRun}
        \cup {r \o p \o e : r \in Runs, p \in PathTexts, e \in {<<>>, <<" ">>}}

\* a header line of valid tokens, kept with the tokens it was written from
HeaderInputs ==
    {[fields |-> <<a, p, o, d, i>>,
      rest |-> r,
      line |-> a \o s[1] \o p \o s[2] \o o \o s[3] \o d \o s[4] \o i \o r] :
        a \in ValidAddrs, p \in ValidPerms, o \in ValidOffsets, d \in ValidDevs,
        i \in ValidInodes, s \in [1..4 -> Runs], r \in Remainders}

InitFromStr ==
    /\ mode = "from_str"
    /\ pc = "call"
    /\ arg \in HeaderInputs
    /\ ret = NoRet
    /\ smaps_content = <<>>
    /\ pos = 0
    /\ region = <<>>
    /\ memory_regions = <<>>
    /\ result = NoResult

\* line.parse::<MemoryRegion>()
CallFromStr ==
    /\ mode = "from_str"
    /\ pc = "call"
    /\ ret' = MemoryRegion_from_str(arg.line)
    /\ pc' = "done"
    /\ UNCHANGED <<mode, smaps_content, pos, region, memory_regions, result, arg>>

NextFromStr == CallFromStr

SpecFromStr == InitFromStr /\ [][NextFromStr]_vars

\* C5: a line of five valid tokens separated by runs of whitespace, with an
\* optional path after more whitespace, parses to the values of those tokens
\* and to the path that is the trimmed remainder of the line.
C5_WhitespaceRunsAndPath ==
    (mode = "from_str" /\ pc = "done") =>
        /\ ret.ok
        /\ <<ret.val.start, ret.val.end>> = parse_address_range(arg.fields[1]).val
        /\ ret.val.permissions = Permissions_from_str(arg.fields[2]).val
        /\ ret.val.offset = u64_from_str_radix(arg.fields[3], 16).val
        /\ ret.val.device = parse_device(arg.fields[4]).val
        /\ ret.val.inode = u64_from_str_radix(arg.fields[5], 10).val
        /\ trim(arg.rest) # <<>> =>
              ret.val.path_name = <<PathType_from_str(trim(arg.rest)).val>>

\* C6: a valid header line with nothing, or only whitespace, after the inode
\* parses to a region whose path is Anonymous, whatever the number of trailing
\* whitespace characters.
C6_EmptyPathIsAnonymous ==
    (mode = "from_str" /\ pc = "done" /\ ret.ok /\ trim(arg.rest) = <<>>) =>
        ret.val.path_name = <<Anonymous>>

-----------------------------------------------------------------------------
(* PathType::from_str *)

PathBases ==
    {<<>>, HeapName, StackName, VdsoName, VvarName, VsyscallName,
     <<"[", "f", "o", "o", "]">>, <<"/", "x">>, <<"/", "a", " ", "b">>, <<"h", "e", "a", "p">>, <<"(", "d", "e", "l", "e", "t", "e", "d", ")">>, <<"/", "t", "m", "p", "/", "o", "l", "d", ".", "s", "o">>}

RECURSIVE Repeat(_, _)
Repeat(s, k) == IF k = 0 THEN <<>> ELSE s \o Repeat(s, k - 1)

\* strings with up to MaxDeleted copies of the suffix, at the end or not
PathInputs ==
    {b \o Repeat(DeletedSuffix, k) \o e :
        b \in PathBases, k \in 0..MaxDeleted, e \in {<<>>, <<"x">>, <<" ">>}}

InitPathType ==
    /\ mode = "path_type"
    /\ pc = "call"
    /\ arg \in PathInputs
    /\ ret = NoRet
    /\ smaps_content = <<>>
    /\ pos = 0
    /\ region = <<>>
    /\ memory_regions = <<>>
    /\ result = NoResult

\* s.parse::<PathType>()
CallPathType ==
    /\ mode = "path_type"
    /\ pc = "call"
    /\ ret' = PathType_from_str(arg)
    /\ pc' = "done"
    /\ UNCHANGED <<mode, smaps_content, pos, region, memory_regions, result, arg>>

NextPathType == CallPathType

SpecPathType == InitPathType /\ [][NextPathType]_vars

Singletons ==
    {<<HeapName, Heap>>, <<StackName, Stack>>, <<VdsoName, Vdso>>,
     <<VvarName, Vvar>>, <<VsyscallName, Vsyscall>>}

\* C7: the classifier never fails; "" is Anonymous, the five bracketed names
\* are their singletons, any other string ending with " (deleted)" is
\* Deleted(p) where p followed by " (deleted)" is the string, and every other
\* string s is File(s).
C7_ClassifierTotal ==
    (mode = "path_type" /\ pc = "done") =>
        /\ ret.ok
        /\ IF arg = <<>> THEN ret.val = Anonymous
           ELSE IF \E n \in Singletons : n[1] = arg
                THEN \E n \in Singletons : n[1] = arg /\ ret.val = n[2]
           ELSE IF ends_with(arg, DeletedSuffix)
                THEN ret.val.tag = "Deleted" /\ ret.val.path \o DeletedSuffix = arg
           ELSE ret.val = File(arg)

-----------------------------------------------------------------------------
(* Permissions::from_str and Display *)

PermChars == {"r", "w", "x", "-", "s", "p", "?"}

PermInputs == UNION {[1..n -> PermChars] : n \in 0..MaxPermLen}

InitPermissions ==
    /\ mode = "permissions"
    /\ pc = "call"
    /\ arg \in PermInputs
    /\ ret = NoRet
    /\ smaps_content = <<>>
    /\ pos = 0
    /\ region = <<>>
    /\ memory_regions = <<>>
    /\ result = NoResult

\* s.parse::<Permissions>()
CallPermissionsFromStr ==
    /\ mode = "permissions"
    /\ pc = "call"
    /\ ret' = Permissions_from_str(arg)
    /\ pc' = "parsed"
    /\ UNCHANGED <<mode, smaps_content, pos, region, memory_regions, result, arg>>

\* permissions.to_string()
CallPermissionsFmt ==
    /\ mode = "permissions"
    /\ pc = "parsed"
    /\ ret.ok
    /\ ret' = [ok |-> TRUE, val |-> ret.val, text |-> Permissions_fmt(ret.val)]
    /\ pc' = "shown"
    /\ UNCHANGED <<mode, smaps_content, pos, region, memory_regions, result, arg>>

NextPermissions ==
    \/ CallPermissionsFromStr
    \/ CallPermissionsFmt

SpecPermissions == InitPermissions /\ [][NextPermissions]_vars

\* the first three characters are each the flag letter or '-'
FlagChars(s) ==
    /\ s[1] \in {"r", "-"}
    /\ s[2] \in {"w", "-"}
    /\ s[3] \in {"x", "-"}

\* C8: a string whose length is not 4 is rejected with InvalidPermissions; a
\* 4-character permission string is accepted, and printing what was parsed gives
\* the string back, with a fourth character other than s or p turned into p.
C8_PermissionsRoundTrip ==
    /\ (mode = "permissions" /\ pc = "parsed") =>
          IF Len(arg) # 4
          THEN ~ret.ok /\ ret.err = InvalidPermissions(arg)
          ELSE ret.ok
    /\ (mode = "permissions" /\ pc = "shown" /\ FlagChars(arg)) =>
          ret.text = IF arg[4] \in {"s", "p"} THEN arg
                     ELSE <<arg[1], arg[2], arg[3], "p">>

C8_Witness ==
    /\ mode = "permissions"
    /\ pc = "shown"
    /\ arg = <<"r", "w", "-", "?">>
    /\ ret.val.read /\ ret.val.write /\ ~ret.val.execute /\ ~ret.val.shared
    /\ ret.text = <<"r", "w", "-", "p">>

-----------------------------------------------------------------------------
(* Widget::render: the grand total and the gauge ratios *)

TOP_N_REGIONS == 5

\* display labels, in ascending lexical order
GroupLabels ==
    <<"/x", "/y", "[anonymous]", "[heap]", "[stack]", "[vdso]", "[vvar]", "[vsyscall]">>

LabelIndex(name) == CHOOSE i \in 1..Len(GroupLabels) : GroupLabels[i] = name

\* the order of the ranked list: value descending, ties by label ascending
RankedBefore(a, b) ==
    \/ a[2] > b[2]
    \/ a[2] = b[2] /\ LabelIndex(a[1]) < LabelIndex(b[1])

\* the (label, total) pairs of the groups, in label order
RECURSIVE GroupPairs(_, _)
GroupPairs(totals, i) ==
    IF i > Len(GroupLabels) THEN <<>>
    ELSE IF i \in DOMAIN totals
         THEN <<<<GroupLabels[i], totals[i]>>>> \o GroupPairs(totals, i + 1)
         ELSE GroupPairs(totals, i + 1)

\* Process::get_rss_totals: one (label, summed Rss) pair per group, ranked
get_rss_totals(totals) == SortSeq(GroupPairs(totals, 1), RankedBefore)

\* per-group Rss sums a snapshot can have: a group whose regions report no Rss,
\* or 0, sums to 0
GroupTotals ==
    UNION {[S -> 0..MaxRss] : S \in SUBSET (1..MaxGroups)}

\* memory_totals.iter().map(|x| x.1).sum()
RECURSIVE SumValues(_)
SumValues(pairs) ==
    IF pairs = <<>> THEN 0 ELSE Head(pairs)[2] + SumValues(Tail(pairs))

\* memory_totals.iter().take(TOP_N_REGIONS)
take(pairs, n) == IF Len(pairs) <= n THEN pairs ELSE Take(pairs, n)

\* `*rss_kb as f64 / total as f64`: the quotient num/den, or NaN for 0.0 / 0.0
\* (rss_kb <= total, so the divisor is 0 only when the dividend is)
RatioF64(rss_kb, total) ==
    IF total = 0 THEN [nan |-> TRUE, num |-> 0, den |-> 1]
    ELSE [nan |-> FALSE, num |-> rss_kb, den |-> total]

\* Gauge::ratio accepts a value in 0.0..=1.0 and panics on any other, NaN included
GaugeAccepts(ratio) == ~ratio.nan /\ 0 <= ratio.num /\ ratio.num <= ratio.den

InitRender ==
    /\ mode = "render"
    /\ pc = "call"
    /\ \E totals \in GroupTotals :
          arg = [totals |-> totals, memory_totals |-> get_rss_totals(totals)]
    /\ ret = NoRet
    /\ smaps_content = <<>>
    /\ pos = 0
    /\ region = <<>>
    /\ memory_regions = <<>>
    /\ result = NoResult

\* index of the first gauge whose ratio is rejected, 0 if none is
RECURSIVE FirstRejected(_, _)
FirstRejected(ratios, i) ==
    IF i > Len(ratios) THEN 0
    ELSE IF ~GaugeAccepts(ratios[i]) THEN i
    ELSE FirstRejected(ratios, i + 1)

\* Widget::render from `let memory_totals` on: the total, the top N groups and
\* one gauge per shown group, in order; a rejected ratio ends the rendering
Render ==
    /\ mode = "render"
    /\ pc = "call"
    /\ LET memory_totals == arg.memory_totals
           total == SumValues(memory_totals)
           top_n_totals == take(memory_totals, TOP_N_REGIONS)
           ratios == [i \in 1..Len(top_n_totals) |->
                         RatioF64(top_n_totals[i][2], total)]
           bad == FirstRejected(ratios, 1)
       IN ret' = [kind |-> IF bad = 0 THEN "rendered" ELSE "panic",
                  total |-> total,
                  ratios |-> IF bad = 0 THEN ratios ELSE Take(ratios, bad)]
    /\ pc' = "done"
    /\ UNCHANGED <<mode, smaps_content, pos, region, memory_regions, result, arg>>

NextRender == Render

SpecRender == InitRender /\ [][NextRender]_vars

RECURSIVE SumOver(_, _)
SumOver(f, S) ==
    IF S = {} THEN 0
    ELSE LET x == CHOOSE y \in S : TRUE IN f[x] + SumOver(f, S \ {x})

\* C10: the grand total is the sum over all groups, shown or not; every shown
\* group's ratio is a number in [0,1]; with a grand total of 0 every ratio is 0
\* and rendering does not fail.
C10_TotalAndRatios ==
    (mode = "render" /\ pc = "done") =>
        /\ ret.total = SumOver(arg.totals, DOMAIN arg.totals)
        /\ ret.kind = "rendered"
        /\ \A i \in 1..Len(ret.ratios) :
              /\ ~ret.ratios[i].nan
              /\ 0 <= ret.ratios[i].num /\ ret.ratios[i].num <= ret.ratios[i].den
              /\ ret.total = 0 => ret.ratios[i].num = 0

=============================================================================
